---- MODULE Spec2Model ----
(***************************************************************************)
(* kl-http: conversion of a byte stream into an http::Request or           *)
(* http::Response and back (src/src/lib.rs).                               *)
(*                                                                         *)
(* A byte is a one-character string.  A stream, a head, a body and every   *)
(* token is a sequence of bytes.                                           *)
(***************************************************************************)
EXTENDS Integers, Sequences, FiniteSets, TLC

VARIABLES
    pc,          \* position of the caller: idle, read_first, read_loop, head_read, done, serialised, responded
    fn,          \* the parse function running: "request", "response" or "none"
    reader,      \* the bytes the BufRead has not yet handed out
    buff,        \* read_head: the accumulated head
    read_bytes,  \* read_head: the count returned by the last read_until
    result,      \* the Result the parse function returned
    message,     \* the message handed to to_http or respond
    http_out,    \* the Vec<u8> returned by to_http / handed to TcpStream::write
    input,       \* history: the stream as it was given to the parse function
    shape,       \* history: how the stream was put together by the peer
    sent         \* history: the message the peer serialised onto the stream

vars == <<pc, fn, reader, buff, read_bytes, result, message, http_out, input, shape, sent>>

----------------------------------------------------------------------------
(* Bytes *)

CR == "\r"
LF == "\n"
SP == " "
CRLF == <<CR, LF>>
COLON == ":"

GET == <<"G", "E", "T">>
SLASH == <<"/">>
HTTP_1_ == <<"H", "T", "T", "P", "/", "1", ".">>
CONTENT_LENGTH == <<"c", "o", "n", "t", "e", "n", "t", "-", "l", "e", "n", "g", "t", "h">>
ContentLengthMixed == <<"C", "o", "n", "t", "e", "n", "t", "-", "L", "e", "n", "g", "t", "h">>
OK == <<"O", "K">>
NotFound == <<"N", "o", "t", " ", "F", "o", "u", "n", "d">>
UnknownStatus == <<"<", "u", "n", "k", "n", "o", "w", "n", " ", "s", "t", "a", "t", "u", "s", " ", "c", "o", "d", "e", ">">>
hello_me == <<"h", "e", "l", "l", "o", " ", "m", "e">>

UpperToLower ==
    [A |-> "a", B |-> "b", C |-> "c", D |-> "d", E |-> "e", F |-> "f", G |-> "g",
     H |-> "h", I |-> "i", J |-> "j", K |-> "k", L |-> "l", M |-> "m", N |-> "n",
     O |-> "o", P |-> "p", Q |-> "q", R |-> "r", S |-> "s", T |-> "t", U |-> "u",
     V |-> "v", W |-> "w", X |-> "x", Y |-> "y", Z |-> "z"]

Upper == DOMAIN UpperToLower
LowerLetters == {UpperToLower[u] : u \in Upper}
Digits == {"0", "1", "2", "3", "4", "5", "6", "7", "8", "9"}
DigitValue == ("0" :> 0) @@ ("1" :> 1) @@ ("2" :> 2) @@ ("3" :> 3) @@ ("4" :> 4) @@
              ("5" :> 5) @@ ("6" :> 6) @@ ("7" :> 7) @@ ("8" :> 8) @@ ("9" :> 9)
DigitByte == [d \in 0..9 |-> CHOOSE b \in Digits : DigitValue[b] = d]

ToLowerByte(b) == IF b \in Upper THEN UpperToLower[b] ELSE b
ToLower(s) == [i \in 1..Len(s) |-> ToLowerByte(s[i])]

Drop(s, n) == SubSeq(s, n + 1, Len(s))
Take(s, n) == SubSeq(s, 1, n)

RECURSIVE Flatten(_)
Flatten(ss) == IF ss = <<>> THEN <<>> ELSE Head(ss) \o Flatten(Tail(ss))

----------------------------------------------------------------------------
(* std: BufRead::read_until, Read::read_exact, usize::to_string, str::parse *)

\* Number of bytes read_until(b'\n') appends: up to and including the first
\* LF, or everything that is left when there is none (0 at end of stream).
RECURSIVE ReadUntilCount(_)
ReadUntilCount(r) ==
    IF r = <<>> THEN 0
    ELSE IF Head(r) = LF THEN 1
    ELSE 1 + ReadUntilCount(Tail(r))

\* read_exact of n bytes: the bytes, or UnexpectedEof when fewer are left.
ReadExact(r, n) ==
    IF Len(r) >= n
    THEN [ok |-> TRUE, bytes |-> Take(r, n), rest |-> Drop(r, n)]
    ELSE [ok |-> FALSE, bytes |-> <<>>, rest |-> <<>>]

RECURSIVE UsizeToString(_)
UsizeToString(n) ==
    IF n < 10 THEN <<DigitByte[n]>>
    ELSE Append(UsizeToString(n \div 10), DigitByte[n % 10])

RECURSIVE DigitsValue(_, _)
DigitsValue(s, acc) ==
    IF s = <<>> THEN acc ELSE DigitsValue(Tail(s), acc * 10 + DigitValue[Head(s)])

\* str::parse::<usize>(): an optional '+', then one or more decimal digits.
\* (Values stay far below the range of usize in this model.)
ParseUsize(s) ==
    LET digits == IF s # <<>> /\ Head(s) = "+" THEN Tail(s) ELSE s
    IN  IF digits = <<>> \/ \E i \in 1..Len(digits) : digits[i] \notin Digits
        THEN [ok |-> FALSE, value |-> 0]
        ELSE [ok |-> TRUE, value |-> DigitsValue(digits, 0)]

----------------------------------------------------------------------------
(* httparse: Request::parse and Response::parse over a complete buffer *)

MAX_HEADERS == 16

HTAB == "\t"
TChar == Upper \cup LowerLetters \cup Digits \cup
         {"-", ".", "+", "!", "#", "_", "~"}
UriChar == TChar \cup {"/", ":", "?", "=", "@", ";", ","}

EMPTY_HEADER == [name |-> <<>>, value |-> <<>>]
EmptyHeaders == [i \in 1..MAX_HEADERS |-> EMPTY_HEADER]

\* The state of a header array that was not shrunk: the filled entries
\* followed by the untouched EMPTY_HEADER entries.
Unshrunk(hs) == hs \o [i \in 1..(MAX_HEADERS - Len(hs)) |-> EMPTY_HEADER]

\* First position q >= p whose byte is not in allowed, or Len(b) + 1.
RECURSIVE ScanWhile(_, _, _)
ScanWhile(b, p, allowed) ==
    IF p > Len(b) THEN p
    ELSE IF b[p] \notin allowed THEN p
    ELSE ScanWhile(b, p + 1, allowed)

\* First position q >= p whose byte is in stop, or Len(b) + 1.
RECURSIVE ScanUntil(_, _, _)
ScanUntil(b, p, stop) ==
    IF p > Len(b) THEN p
    ELSE IF b[p] \in stop THEN p
    ELSE ScanUntil(b, p + 1, stop)

RECURSIVE skip_empty_lines(_, _)
skip_empty_lines(b, p) ==
    IF p > Len(b) THEN [st |-> "Partial", pos |-> p]
    ELSE IF b[p] = CR
         THEN IF p + 1 > Len(b) THEN [st |-> "Partial", pos |-> p]
              ELSE IF b[p + 1] = LF THEN skip_empty_lines(b, p + 2)
              ELSE [st |-> "NewLine", pos |-> p]
    ELSE IF b[p] = LF THEN skip_empty_lines(b, p + 1)
    ELSE [st |-> "Ok", pos |-> p]

\* parse_token / parse_uri: the bytes up to the next space.
parse_token(b, p, chars) ==
    LET q == ScanWhile(b, p, chars)
    IN  IF q > Len(b) THEN [st |-> "Partial", pos |-> q, tok |-> <<>>]
        ELSE IF b[q] = SP THEN [st |-> "Ok", pos |-> q + 1, tok |-> SubSeq(b, p, q - 1)]
        ELSE [st |-> "Token", pos |-> q, tok |-> <<>>]

\* parse_version: "HTTP/1.0" or "HTTP/1.1"; fewer than eight bytes is Partial
\* when they are a prefix of it.
parse_version(b, p) ==
    LET avail == Len(b) - p + 1
    IN  IF avail >= 8
        THEN IF SubSeq(b, p, p + 6) = HTTP_1_ /\ b[p + 7] \in {"0", "1"}
             THEN [st |-> "Ok", pos |-> p + 8, version |-> DigitValue[b[p + 7]]]
             ELSE [st |-> "Version", pos |-> p, version |-> 0]
        ELSE IF avail <= 7 /\ SubSeq(b, p, Len(b)) = Take(HTTP_1_, avail)
             THEN [st |-> "Partial", pos |-> p, version |-> 0]
             ELSE [st |-> "Version", pos |-> p, version |-> 0]

\* newline!: CRLF or a bare LF.
newline(b, p) ==
    IF p > Len(b) THEN [st |-> "Partial", pos |-> p]
    ELSE IF b[p] = CR
         THEN IF p + 1 > Len(b) THEN [st |-> "Partial", pos |-> p]
              ELSE IF b[p + 1] = LF THEN [st |-> "Ok", pos |-> p + 2]
              ELSE [st |-> "NewLine", pos |-> p]
    ELSE IF b[p] = LF THEN [st |-> "Ok", pos |-> p + 1]
    ELSE [st |-> "NewLine", pos |-> p]

\* parse_headers_iter: fills the header array in order of arrival.  The array
\* is shrunk to the parsed headers only when the terminating newline was seen;
\* a return of Partial or of an error leaves it at its full length.
HeadersPartial(hs) == [st |-> "Partial", pos |-> 0, headers |-> Unshrunk(hs)]
HeadersError(e, hs) == [st |-> e, pos |-> 0, headers |-> Unshrunk(hs)]
HeadersComplete(hs) == [st |-> "Complete", pos |-> 0, headers |-> hs]
HeadersNext(p, hs) == [st |-> "Next", pos |-> p, headers |-> hs]

\* The value of the header named name, from position r to the end of line s.
header_value(b, hs, name, r, s) ==
    IF s > Len(b) THEN HeadersPartial(Append(hs, [name |-> name, value |-> <<>>]))
    ELSE IF b[s] = LF
         THEN HeadersNext(s + 1, Append(hs, [name |-> name, value |-> SubSeq(b, r, s - 1)]))
    ELSE IF s + 1 > Len(b) THEN HeadersPartial(Append(hs, [name |-> name, value |-> <<>>]))
    ELSE IF b[s + 1] = LF
         THEN HeadersNext(s + 2, Append(hs, [name |-> name, value |-> SubSeq(b, r, s - 1)]))
    ELSE HeadersError("HeaderValue", hs)

\* The white space after the colon, skipped up to position r.
header_space(b, hs, name, r) ==
    IF r > Len(b) THEN HeadersPartial(Append(hs, [name |-> name, value |-> <<>>]))
    ELSE header_value(b, hs, name, r, ScanUntil(b, r, {CR, LF}))

\* The name of the header that starts at p and whose token ends before q.
header_name(b, hs, p, q) ==
    IF q > Len(b) THEN HeadersPartial(hs)
    ELSE IF b[q] # COLON THEN HeadersError("HeaderName", hs)
    ELSE header_space(b, hs, SubSeq(b, p, q - 1), ScanWhile(b, q + 1, {SP, HTAB}))

\* One turn of the 'headers loop: the end of the head, or one header line.
header_line(b, p, hs) ==
    IF p > Len(b) THEN HeadersPartial(hs)
    ELSE IF b[p] = CR
         THEN IF p + 1 > Len(b) THEN HeadersPartial(hs)
              ELSE IF b[p + 1] = LF THEN HeadersComplete(hs)
              ELSE HeadersError("NewLine", hs)
    ELSE IF b[p] = LF THEN HeadersComplete(hs)
    ELSE IF b[p] \notin TChar THEN HeadersError("HeaderName", hs)
    ELSE IF Len(hs) = MAX_HEADERS THEN HeadersError("TooManyHeaders", hs)
    ELSE header_name(b, hs, p, ScanWhile(b, p, TChar))

RECURSIVE headers_loop(_, _)
headers_loop(b, step) ==
    IF step.st = "Next" THEN headers_loop(b, header_line(b, step.pos, step.headers))
    ELSE step

parse_headers_iter(b, p) == headers_loop(b, HeadersNext(p, <<>>))

None == [some |-> FALSE]
Some(v) == [some |-> TRUE, v |-> v]

RequestEarly(st, method, path) ==
    [st |-> st, method |-> method, path |-> path, headers |-> EmptyHeaders]

request_headers(m, u, h) ==
    [st |-> h.st, method |-> Some(m.tok), path |-> Some(u.tok), headers |-> h.headers]

request_newline(b, m, u, n) ==
    IF n.st # "Ok" THEN RequestEarly(n.st, Some(m.tok), Some(u.tok))
    ELSE request_headers(m, u, parse_headers_iter(b, n.pos))

request_version(b, m, u, v) ==
    IF v.st # "Ok" THEN RequestEarly(v.st, Some(m.tok), Some(u.tok))
    ELSE request_newline(b, m, u, newline(b, v.pos))

request_path(b, m, u) ==
    IF u.st # "Ok" THEN RequestEarly(u.st, Some(m.tok), None)
    ELSE request_version(b, m, u, parse_version(b, u.pos))

request_method(b, m) ==
    IF m.st # "Ok" THEN RequestEarly(m.st, None, None)
    ELSE request_path(b, m, parse_token(b, m.pos, UriChar))

request_start(b, e) ==
    IF e.st # "Ok" THEN RequestEarly(e.st, None, None)
    ELSE request_method(b, parse_token(b, e.pos, TChar))

\* httparse::Request::parse.  st is "Complete", "Partial" or the httparse::Error.
RequestParse(b) == request_start(b, skip_empty_lines(b, 1))

\* The three digits of a status code.
parse_code(b, p) ==
    IF Len(b) - p + 1 < 3
    THEN IF \A i \in p..Len(b) : b[i] \in Digits
         THEN [st |-> "Partial", pos |-> p, code |-> 0]
         ELSE [st |-> "Status", pos |-> p, code |-> 0]
    ELSE IF \A i \in p..(p + 2) : b[i] \in Digits
         THEN [st |-> "Ok", pos |-> p + 3, code |-> DigitsValue(SubSeq(b, p, p + 2), 0)]
         ELSE [st |-> "Status", pos |-> p, code |-> 0]

\* The reason phrase from position p to the end of line s.
reason_end(b, s) ==
    IF s > Len(b) THEN [st |-> "Partial", pos |-> s]
    ELSE IF b[s] = LF THEN [st |-> "Ok", pos |-> s + 1]
    ELSE IF s + 1 > Len(b) THEN [st |-> "Partial", pos |-> s]
    ELSE IF b[s + 1] = LF THEN [st |-> "Ok", pos |-> s + 2]
    ELSE [st |-> "Status", pos |-> s]

\* What follows the code: a newline, or a space and the reason phrase.
parse_reason(b, p) ==
    IF p > Len(b) THEN [st |-> "Partial", pos |-> p]
    ELSE IF b[p] = LF THEN [st |-> "Ok", pos |-> p + 1]
    ELSE IF b[p] = CR
         THEN IF p + 1 > Len(b) THEN [st |-> "Partial", pos |-> p]
              ELSE IF b[p + 1] = LF THEN [st |-> "Ok", pos |-> p + 2]
              ELSE [st |-> "Status", pos |-> p]
    ELSE IF b[p] # SP THEN [st |-> "Status", pos |-> p]
    ELSE reason_end(b, ScanUntil(b, p + 1, {CR, LF}))

\* The space between the version and the code.
parse_space(b, p) ==
    IF p > Len(b) THEN [st |-> "Partial", pos |-> p]
    ELSE IF b[p] = SP THEN [st |-> "Ok", pos |-> p + 1]
    ELSE [st |-> "Version", pos |-> p]

ResponseEarly(st, code) == [st |-> st, code |-> code, headers |-> EmptyHeaders]

response_headers(c, h) == [st |-> h.st, code |-> Some(c.code), headers |-> h.headers]

response_reason(b, c, r) ==
    IF r.st # "Ok" THEN ResponseEarly(r.st, Some(c.code))
    ELSE response_headers(c, parse_headers_iter(b, r.pos))

response_code(b, c) ==
    IF c.st # "Ok" THEN ResponseEarly(c.st, None)
    ELSE response_reason(b, c, parse_reason(b, c.pos))

response_space(b, sp) ==
    IF sp.st # "Ok" THEN ResponseEarly(sp.st, None)
    ELSE response_code(b, parse_code(b, sp.pos))

response_version(b, v) ==
    IF v.st # "Ok" THEN ResponseEarly(v.st, None)
    ELSE response_space(b, parse_space(b, v.pos))

response_start(b, e) ==
    IF e.st # "Ok" THEN ResponseEarly(e.st, None)
    ELSE response_version(b, parse_version(b, e.pos))

\* httparse::Response::parse.
ResponseParse(b) == response_start(b, skip_empty_lines(b, 1))

----------------------------------------------------------------------------
(* http: header names and values, HeaderMap, the message builders *)

\* HeaderName::from_bytes: a non-empty token, stored in lower case.
HeaderNameFromBytes(n) ==
    [ok |-> n # <<>> /\ \A i \in 1..Len(n) : n[i] \in TChar, name |-> ToLower(n)]

\* HeaderValue::from_bytes: no control bytes.
HeaderValueFromBytes(v) ==
    [ok |-> \A i \in 1..Len(v) : v[i] \notin {CR, LF}, value |-> v]

\* Method::from_bytes: a non-empty token.
MethodFromBytes(m) == m # <<>> /\ \A i \in 1..Len(m) : m[i] \in TChar

\* Uri::from_str
UriFromStr(u) == u # <<>> /\ \A i \in 1..Len(u) : u[i] \in UriChar

\* A HeaderMap is the sequence of its (name, value) entries in iteration
\* order: the names in order of first insertion, all the values of one name
\* together, in order of insertion.
RECURSIVE LastIndexOf(_, _, _)
LastIndexOf(map, name, i) ==
    IF i = 0 THEN 0
    ELSE IF map[i].name = name THEN i
    ELSE LastIndexOf(map, name, i - 1)

\* HeaderMap::append
HeaderMapAppend(map, name, value) ==
    LET k == LastIndexOf(map, name, Len(map))
        e == [name |-> name, value |-> value]
    IN  IF k = 0 THEN Append(map, e)
        ELSE Take(map, k) \o <<e>> \o Drop(map, k)

\* HeaderMap::insert: replaces the values of a name that is present.
HeaderMapInsert(map, name, value) ==
    LET k == LastIndexOf(map, name, Len(map))
        e == [name |-> name, value |-> value]
        first == CHOOSE i \in 1..Len(map) :
                    map[i].name = name /\ \A j \in 1..(i - 1) : map[j].name # name
    IN  IF k = 0 THEN Append(map, e)
        ELSE Take(map, first - 1) \o <<e>> \o Drop(map, k)

\* request::Builder::header / response::Builder::header: the first error is
\* kept and later calls do nothing.
BuilderHeader(b, n, v) ==
    IF b.err THEN b
    ELSE IF ~n.ok \/ ~v.ok THEN [b EXCEPT !.err = TRUE]
    ELSE [b EXCEPT !.headers = HeaderMapAppend(@, n.name, v.value)]

\* The loop of lines 160-162 and 218-220 over the parsed header array.
RECURSIVE BuilderHeaders(_, _)
BuilderHeaders(b, hs) ==
    IF hs = <<>> THEN b
    ELSE BuilderHeaders(BuilderHeader(b, HeaderNameFromBytes(Head(hs).name),
                                      HeaderValueFromBytes(Head(hs).value)),
                        Tail(hs))

\* impl Debug for http::Version
VersionDebug(v) ==
    CASE v = "HTTP_09" -> <<"H", "T", "T", "P", "/", "0", ".", "9">>
      [] v = "HTTP_10" -> HTTP_1_ \o <<"0">>
      [] v = "HTTP_11" -> HTTP_1_ \o <<"1">>
      [] v = "HTTP_2"  -> <<"H", "T", "T", "P", "/", "2", ".", "0">>

\* StatusCode::canonical_reason
CanonicalReason(code) ==
    CASE code = 200 -> Some(OK)
      [] code = 404 -> Some(NotFound)
      [] OTHER -> None

\* impl Display for http::StatusCode
StatusDisplay(code) ==
    UsizeToString(code) \o <<SP>> \o
    (IF CanonicalReason(code).some THEN CanonicalReason(code).v ELSE UnknownStatus)

----------------------------------------------------------------------------
(* lib.rs *)

Ok(m) == [tag |-> "Ok", msg |-> m]
Err(e) == [tag |-> "Err", err |-> e]
NoResult == [tag |-> "None"]

\* lib.rs:145, 209: the closure that picks the header giving the body length.
IsContentLength(header) == header.name = CONTENT_LENGTH

\* Iterator::find over the header array.
RECURSIVE Find(_)
Find(hs) ==
    IF hs = <<>> THEN None
    ELSE IF IsContentLength(Head(hs)) THEN Some(Head(hs))
    ELSE Find(Tail(hs))

\* A parse function's return value and what it left in the reader.
Return(res, rdr) == [result |-> res, reader |-> rdr]

\* Lines 142-149: the body length.
BodyLength(found) ==
    IF found.some THEN ParseUsize(found.v.value) ELSE [ok |-> TRUE, value |-> 0]

\* Lines 151-158: the request builder with the parsed method and path.
BuilderMethod(b, method) ==
    IF ~method.some THEN b
    ELSE IF MethodFromBytes(method.v) THEN [b EXCEPT !.method = method.v]
    ELSE [b EXCEPT !.err = TRUE]

BuilderUri(b, path) ==
    IF ~path.some \/ b.err THEN b
    ELSE IF UriFromStr(path.v) THEN [b EXCEPT !.uri = path.v]
    ELSE [b EXCEPT !.err = TRUE]

RequestBuilder == [err |-> FALSE, method |-> GET, uri |-> SLASH, headers |-> <<>>]

\* Lines 164-173: the body is read, then the builder is finished.
request_body(b, body) ==
    IF ~body.ok THEN Return(Err("IOError"), body.rest)
    ELSE IF b.err THEN Return(Err("BodyWritingError"), body.rest)
    ELSE Return(Ok([kind |-> "request", method |-> b.method, uri |-> b.uri,
                    version |-> "HTTP_11", headers |-> b.headers, body |-> body.bytes]),
                body.rest)

request_length(p, body_length, rdr) ==
    IF ~body_length.ok THEN Return(Err("ContentLengthParsingError"), rdr)
    ELSE request_body(BuilderHeaders(BuilderUri(BuilderMethod(RequestBuilder, p.method), p.path),
                                     p.headers),
                      ReadExact(rdr, body_length.value))

request_parsed(p, rdr) ==
    IF p.st \notin {"Complete", "Partial"} THEN Return(Err("ParsingError"), rdr)
    ELSE request_length(p, BodyLength(Find(p.headers)), rdr)

\* The part of parse_into_request after read_head returned request_bytes.
parse_into_request(request_bytes, rdr) == request_parsed(RequestParse(request_bytes), rdr)

\* The status of response::Builder when status() is never called on it
\* (parse_into_response calls only version, header and body).
StatusCodeDefault == 200

ResponseBuilder == [err |-> FALSE, headers |-> <<>>]

\* Lines 222-231: the body is read, then the builder is finished.
response_body(b, body) ==
    IF ~body.ok THEN Return(Err("IOError"), body.rest)
    ELSE IF b.err THEN Return(Err("BodyWritingError"), body.rest)
    ELSE Return(Ok([kind |-> "response", status |-> StatusCodeDefault,
                    version |-> "HTTP_11", headers |-> b.headers, body |-> body.bytes]),
                body.rest)

response_length(p, body_length, rdr) ==
    IF ~body_length.ok THEN Return(Err("ContentLengthParsingError"), rdr)
    ELSE response_body(BuilderHeaders(ResponseBuilder, p.headers),
                       ReadExact(rdr, body_length.value))

response_parsed(p, rdr) ==
    IF p.st \notin {"Complete", "Partial"} THEN Return(Err("ParsingError"), rdr)
    ELSE response_length(p, BodyLength(Find(p.headers)), rdr)

\* The part of parse_into_response after read_head returned response_bytes.
parse_into_response(response_bytes, rdr) == response_parsed(ResponseParse(response_bytes), rdr)

\* Lines 285-286 without the push of b' '.
HeaderLineNoSpace(h) == h.name \o <<COLON>> \o h.value \o CRLF

\* The header loop of to_http: one "name: value\r\n" per entry, in iteration order.
HeaderLine(h) == h.name \o <<COLON, SP>> \o h.value \o CRLF
HeaderLines(headers) == Flatten([i \in 1..Len(headers) |-> HeaderLine(headers[i])])

\* <http::Request<Vec<u8>> as HttpSerialise>::to_http
RequestToHttp(m) ==
    (m.method \o <<SP>> \o m.uri \o <<SP>> \o VersionDebug(m.version) \o CRLF)
    \o HeaderLines(m.headers) \o CRLF \o m.body

\* <http::Response<Vec<u8>> as HttpSerialise>::to_http
ResponseToHttp(m) ==
    (VersionDebug(m.version) \o <<SP>> \o StatusDisplay(m.status) \o CRLF)
    \o HeaderLines(m.headers) \o CRLF \o m.body

to_http(m) == IF m.kind = "request" THEN RequestToHttp(m) ELSE ResponseToHttp(m)

\* respond without the test of line 100: the header is always inserted.
InsertContentLengthAlways(response) ==
    [response EXCEPT !.headers =
        HeaderMapInsert(@, CONTENT_LENGTH, UsizeToString(Len(response.body)))]

\* respond, lines 100-108: the content-length header is inserted when the
\* response has no header of that name.
InsertContentLength(response) ==
    IF ~(\E i \in 1..Len(response.headers) : response.headers[i].name = CONTENT_LENGTH)
    THEN [response EXCEPT !.headers =
             HeaderMapInsert(@, CONTENT_LENGTH, UsizeToString(Len(response.body)))]
    ELSE response

----------------------------------------------------------------------------
(* The streams a peer sends and the messages a caller builds *)

MaxHdrLines == 2     \* header lines of a generated head
MaxTail == 2         \* bytes that follow a generated head
MaxMsgHeaders == 2   \* headers appended to a built message

H(name, value) == [name |-> name, value |-> value]

HdrLineChoices ==
    { H(CONTENT_LENGTH, <<"1">>), H(CONTENT_LENGTH, <<"2">>),
      H(ContentLengthMixed, <<"2">>), H(ContentLengthMixed, <<"x">>),
      H(CONTENT_LENGTH, <<"-", "1">>),
      H(<<"a">>, <<"1">>), H(<<"b">>, <<"2">>), H(<<"a">>, <<"3">>) }

SeqsUpTo(S, n) == UNION {[1..k -> S] : k \in 0..n}

HdrLists ==
    SeqsUpTo(HdrLineChoices, MaxHdrLines) \cup
    { <<H(<<"a">>, <<"1">>), H(<<"b">>, <<"2">>), H(<<"a">>, <<"3">>)>>,
      [i \in 1..MAX_HEADERS |-> H(<<"a">>, <<"1">>)],
      [i \in 1..(MAX_HEADERS + 1) |-> H(<<"a">>, <<"1">>)] }

FirstLine(f) ==
    CASE f = "GET / HTTP/1.1" -> GET \o <<SP>> \o SLASH \o <<SP>> \o HTTP_1_ \o <<"1">> \o CRLF
      [] f = "HTTP/1.1 200 OK" -> HTTP_1_ \o <<"1", SP, "2", "0", "0", SP>> \o OK \o CRLF
      [] f = "HTTP/1.1 404 Not Found" -> HTTP_1_ \o <<"1", SP, "4", "0", "4", SP>> \o NotFound \o CRLF

FirstLines == {"GET / HTTP/1.1", "HTTP/1.1 200 OK", "HTTP/1.1 404 Not Found"}

Tails == {[i \in 1..n |-> "x"] : n \in 0..MaxTail}

\* lead: an empty line before the first line; term: the head terminator is sent.
Shapes == [lead : BOOLEAN, first : FirstLines, hdrs : HdrLists, term : BOOLEAN, tail : Tails]
NoShape == [lead |-> FALSE, first |-> "none", hdrs |-> <<>>, term |-> FALSE, tail |-> <<>>]

ShapeHead(sh) ==
    (IF sh.lead THEN CRLF ELSE <<>>) \o FirstLine(sh.first)
    \o Flatten([i \in 1..Len(sh.hdrs) |-> sh.hdrs[i].name \o <<COLON, SP>> \o sh.hdrs[i].value \o CRLF])
    \o (IF sh.term THEN CRLF ELSE <<>>)

Render(sh) == ShapeHead(sh) \o sh.tail

MsgHeaderChoices ==
    { H(CONTENT_LENGTH, <<"1">>), H(CONTENT_LENGTH, <<"8">>),
      H(<<"a">>, <<"1">>), H(<<"b">>, <<"2">>) }

RECURSIVE AppendAll(_, _)
AppendAll(map, hs) ==
    IF hs = <<>> THEN map
    ELSE AppendAll(HeaderMapAppend(map, Head(hs).name, Head(hs).value), Tail(hs))

HeaderMaps ==
    {AppendAll(<<>>, hs) : hs \in SeqsUpTo(MsgHeaderChoices, MaxMsgHeaders)} \cup
    {AppendAll(<<>>, <<H(<<"a">>, <<"1">>), H(<<"b">>, <<"2">>), H(<<"a">>, <<"3">>)>>)}

Bodies == {<<>>, <<"x">>, hello_me}

Requests ==
    [kind : {"request"}, method : {GET}, uri : {SLASH}, version : {"HTTP_11", "HTTP_10"},
     headers : HeaderMaps, body : Bodies]

Responses ==
    [kind : {"response"}, status : {200, 404}, version : {"HTTP_11"},
     headers : HeaderMaps, body : Bodies]

Messages == Requests \cup Responses
NoMessage == [kind |-> "none"]

----------------------------------------------------------------------------
(* The state machine *)

Init ==
    /\ pc = "idle"
    /\ fn = "none"
    /\ reader = <<>>
    /\ buff = <<>>
    /\ read_bytes = 0
    /\ result = NoResult
    /\ message = NoMessage
    /\ http_out = <<>>
    /\ input = <<>>
    /\ shape = NoShape
    /\ sent = NoMessage

\* A peer's bytes arrive and parse_into_request or parse_into_response is
\* called on the reader.
Receive ==
    /\ pc = "idle"
    /\ \E sh \in Shapes, f \in {"request", "response"} :
          /\ fn' = f
          /\ reader' = Render(sh)
          /\ input' = Render(sh)
          /\ shape' = sh
    /\ pc' = "read_first"
    /\ UNCHANGED <<buff, read_bytes, result, message, http_out, sent>>

\* A peer serialises a message of its own, the content-length header added
\* when absent, and the matching parse function is called on those bytes.
Transmit ==
    /\ pc = "idle"
    /\ \E m \in Messages :
          /\ fn' = m.kind
          /\ sent' = InsertContentLength(m)
          /\ reader' = to_http(InsertContentLength(m))
          /\ input' = to_http(InsertContentLength(m))
    /\ pc' = "read_first"
    /\ UNCHANGED <<buff, read_bytes, result, message, http_out, shape>>

\* read_head, lines 238-239: the first read_until.
ReadHeadFirst ==
    /\ pc = "read_first"
    /\ LET n == ReadUntilCount(reader) IN
          /\ buff' = Take(reader, n)
          /\ reader' = Drop(reader, n)
          /\ read_bytes' = n
    /\ pc' = "read_loop"
    /\ UNCHANGED <<fn, result, message, http_out, input, shape, sent>>

\* Line 242 with >= for ==: any line that ends in CRLF stops the loop.
IsTerminatorAtLeast(n, b) == n >= 2 /\ SubSeq(b, Len(b) - 1, Len(b)) = CRLF

\* The test of line 242 on the line just read.
IsTerminator(n, b) == n = 2 /\ SubSeq(b, Len(b) - 1, Len(b)) = CRLF

\* read_head, lines 240-245: one iteration of the loop.
ReadHeadLoop ==
    /\ pc = "read_loop"
    /\ read_bytes > 0
    /\ LET n == ReadUntilCount(reader) IN
          /\ buff' = buff \o Take(reader, n)
          /\ reader' = Drop(reader, n)
          /\ read_bytes' = n
          /\ pc' = IF IsTerminator(n, buff \o Take(reader, n)) THEN "head_read" ELSE "read_loop"
    /\ UNCHANGED <<fn, result, message, http_out, input, shape, sent>>

\* read_head, lines 240 and 247: the loop condition fails and buff is returned.
ReadHeadReturn ==
    /\ pc = "read_loop"
    /\ read_bytes = 0
    /\ pc' = "head_read"
    /\ UNCHANGED <<fn, reader, buff, read_bytes, result, message, http_out, input, shape, sent>>

ParseIntoRequest ==
    /\ pc = "head_read"
    /\ fn = "request"
    /\ result' = parse_into_request(buff, reader).result
    /\ reader' = parse_into_request(buff, reader).reader
    /\ pc' = "done"
    /\ UNCHANGED <<fn, buff, read_bytes, message, http_out, input, shape, sent>>

ParseIntoResponse ==
    /\ pc = "head_read"
    /\ fn = "response"
    /\ result' = parse_into_response(buff, reader).result
    /\ reader' = parse_into_response(buff, reader).reader
    /\ pc' = "done"
    /\ UNCHANGED <<fn, buff, read_bytes, message, http_out, input, shape, sent>>

\* to_http on the message a parse function returned.
ToHttpParsed ==
    /\ pc = "done"
    /\ result.tag = "Ok"
    /\ message' = result.msg
    /\ http_out' = to_http(result.msg)
    /\ pc' = "serialised"
    /\ UNCHANGED <<fn, reader, buff, read_bytes, result, input, shape, sent>>

\* to_http on a message the caller built.
ToHttpBuilt ==
    /\ pc = "idle"
    /\ \E m \in Messages :
          /\ message' = m
          /\ http_out' = to_http(m)
    /\ pc' = "serialised"
    /\ UNCHANGED <<fn, reader, buff, read_bytes, result, input, shape, sent>>

\* HttpRequest::respond on the HttpRequest that from_tcp_stream returned;
\* http_out is the buffer handed to TcpStream::write.
Respond ==
    /\ pc = "done"
    /\ fn = "request"
    /\ result.tag = "Ok"
    /\ sent = NoMessage
    /\ \E r \in Responses :
          /\ message' = r
          /\ http_out' = ResponseToHttp(InsertContentLength(r))
    /\ pc' = "responded"
    /\ UNCHANGED <<fn, reader, buff, read_bytes, result, input, shape, sent>>

Next ==
    \/ Receive
    \/ Transmit
    \/ ReadHeadFirst
    \/ ReadHeadLoop
    \/ ReadHeadReturn
    \/ ParseIntoRequest
    \/ ParseIntoResponse
    \/ ToHttpParsed
    \/ ToHttpBuilt
    \/ Respond

Spec == Init /\ [][Next]_vars

FairSpec == Spec /\ WF_vars(ReadHeadFirst) /\ WF_vars(ReadHeadLoop) /\ WF_vars(ReadHeadReturn)

----------------------------------------------------------------------------
(* What the wire bytes and the peer's shape say, independently of the code *)

\* The position of the LF that ends the first line at or after position
\* from that is exactly CRLF, or 0 when there is none.
CrlfLineEnds(b, from) ==
    {i \in from..Len(b) :
        /\ i >= 2
        /\ b[i] = LF
        /\ b[i - 1] = CR
        /\ (i = 2 \/ b[i - 2] = LF)}

Min(S) == CHOOSE x \in S : \A y \in S : x <= y

FirstLfPos(b) == IF \E i \in 1..Len(b) : b[i] = LF
                 THEN Min({i \in 1..Len(b) : b[i] = LF}) ELSE Len(b)

\* The head when reading stops at the first line that is exactly CRLF.
HeadToFirstCrlfLine(b) ==
    IF CrlfLineEnds(b, 1) = {} THEN b ELSE Take(b, Min(CrlfLineEnds(b, 1)))

\* The head when the first line is taken whatever it is and reading stops at
\* the first later line that is exactly CRLF.
HeadToFirstLaterCrlfLine(b) ==
    IF CrlfLineEnds(b, FirstLfPos(b) + 1) = {} THEN b
    ELSE Take(b, Min(CrlfLineEnds(b, FirstLfPos(b) + 1)))

\* The lines of b, each with its LF; the bytes after the last LF are the last line.
RECURSIVE WireLines(_)
WireLines(b) ==
    IF b = <<>> THEN <<>>
    ELSE <<Take(b, FirstLfPos(b))>> \o WireLines(Drop(b, FirstLfPos(b)))

\* The header lines of serialised bytes: the lines after the first line, up
\* to the first empty line.
RECURSIVE UntilEmptyLine(_)
UntilEmptyLine(ls) ==
    IF ls = <<>> \/ Head(ls) = CRLF THEN <<>>
    ELSE <<Head(ls)>> \o UntilEmptyLine(Tail(ls))

WireHeaderLines(b) == UntilEmptyLine(Tail(WireLines(b)))

IsContentLengthLine(l) ==
    Len(l) > Len(CONTENT_LENGTH) /\ ToLower(Take(l, Len(CONTENT_LENGTH))) = CONTENT_LENGTH
    /\ l[Len(CONTENT_LENGTH) + 1] = COLON

\* The value of a "name: value\r\n" line.
WireValue(l, name) == SubSeq(l, Len(name) + 3, Len(l) - 2)

Count(ls, P(_)) == Cardinality({i \in 1..Len(ls) : P(ls[i])})

\* The first header of a peer's head whose name is content-length in any case.
DeclaredIndex(hdrs) ==
    IF \E i \in 1..Len(hdrs) : ToLower(hdrs[i].name) = CONTENT_LENGTH
    THEN Min({i \in 1..Len(hdrs) : ToLower(hdrs[i].name) = CONTENT_LENGTH}) ELSE 0

IsDecimal(v) == v # <<>> /\ \A i \in 1..Len(v) : v[i] \in Digits

RECURSIVE Decimal(_)
Decimal(v) == IF v = <<>> THEN 0 ELSE Decimal(Take(v, Len(v) - 1)) * 10 + DigitValue[v[Len(v)]]

Declared(hdrs) == hdrs[DeclaredIndex(hdrs)].value

IsRequestLine(f) == f = "GET / HTTP/1.1"
IsStatusLine(f) == f \in {"HTTP/1.1 200 OK", "HTTP/1.1 404 Not Found"}
StatusOf(f) == IF f = "HTTP/1.1 200 OK" THEN 200 ELSE 404

\* A head in the grammar of the function that reads it: first line, at most
\* MAX_HEADERS header lines, terminator.
WellFormedHead ==
    /\ shape # NoShape
    /\ ~shape.lead
    /\ shape.term
    /\ Len(shape.hdrs) <= MAX_HEADERS
    /\ (fn = "request" => IsRequestLine(shape.first))
    /\ (fn = "response" => IsStatusLine(shape.first))

\* A well-formed head whose declared length is a number the tail can satisfy.
WellFormedInput ==
    /\ WellFormedHead
    /\ DeclaredIndex(shape.hdrs) # 0 =>
          /\ IsDecimal(Declared(shape.hdrs))
          /\ Decimal(Declared(shape.hdrs)) <= Len(shape.tail)

DeclaredLength == IF DeclaredIndex(shape.hdrs) = 0 THEN 0 ELSE Decimal(Declared(shape.hdrs))

----------------------------------------------------------------------------
(* Claims *)

SentLengthMatches ==
    /\ DeclaredIndex(sent.headers) # 0
    /\ IsDecimal(Declared(sent.headers))
    /\ Decimal(Declared(sent.headers)) = Len(sent.body)

\* C1: a message serialised with to_http, its content-length header added
\* when absent, parses back to an equal message: same first-line fields, same
\* headers in the same order, same body.
C1_RoundTrip ==
    (/\ pc = "done" /\ sent # NoMessage
     /\ sent.version = "HTTP_11" /\ sent.body # <<>> /\ SentLengthMatches)
        => result = Ok(sent)

\* C2: for a well-formed response stream parse_into_response returns a
\* response with the status code of the status line, version HTTP/1.1 and the
\* content-length bytes after the head as body.
C2_StatusLineApplied ==
    (pc = "done" /\ fn = "response" /\ WellFormedInput)
        => /\ result.tag = "Ok"
           /\ result.msg.status = StatusOf(shape.first)
           /\ result.msg.version = "HTTP_11"
           /\ result.msg.body = Take(shape.tail, DeclaredLength)

LowerNames(hdrs) == [i \in 1..Len(hdrs) |-> H(ToLower(hdrs[i].name), hdrs[i].value)]

\* C3: the parsed message holds one header per header line in the order
\* received, duplicates neither merged nor regrouped, and to_http of a parsed
\* request reproduces the bytes received.
C3_HeaderOrderPreserved ==
    /\ (pc = "done" /\ WellFormedInput /\ result.tag = "Ok")
          => result.msg.headers = LowerNames(shape.hdrs)
    /\ (pc = "serialised" /\ WellFormedInput /\ fn = "request")
          => http_out = Take(input, Len(input) - Len(reader))

\* C4: the body of a returned message has as many bytes as the value of the
\* first header named content-length in any letter case, and none when there
\* is no such header.
C4_BodyLengthRule ==
    (pc = "done" /\ shape # NoShape /\ result.tag = "Ok")
        => IF DeclaredIndex(shape.hdrs) = 0
           THEN Len(result.msg.body) = 0
           ELSE /\ IsDecimal(Declared(shape.hdrs))
                /\ Len(result.msg.body) = Decimal(Declared(shape.hdrs))

\* C7: a declared content-length larger than the bytes that follow the head
\* makes the parse functions fail with IOError.
C7_ShortBodyIsIOError ==
    (/\ pc = "done" /\ WellFormedHead
     /\ DeclaredIndex(shape.hdrs) # 0
     /\ IsDecimal(Declared(shape.hdrs))
     /\ Decimal(Declared(shape.hdrs)) > Len(shape.tail))
        => result = Err("IOError")

\* C8: a first content-length header whose value is not a non-negative
\* decimal integer makes the parse functions fail with
\* ContentLengthParsingError.
C8_MalformedLengthIsError ==
    (/\ pc = "done" /\ WellFormedHead
     /\ DeclaredIndex(shape.hdrs) # 0
     /\ ~IsDecimal(Declared(shape.hdrs)))
        => result = Err("ContentLengthParsingError")

\* C9: a stream that ends before a line of exactly CRLF was read makes the
\* parse functions return an error, never a message.
C9_TruncatedHeadIsError ==
    (pc = "done" /\ shape # NoShape /\ CrlfLineEnds(input, 1) = {})
        => result.tag = "Err"

\* C10 as stated: read_head returns the bytes up to and including the first
\* line that is exactly CRLF (all bytes when there is none) and leaves the
\* rest in the reader.
C10_StopsAtFirstCrlfLine ==
    pc = "head_read"
        => /\ buff = HeadToFirstCrlfLine(input)
           /\ reader = Drop(input, Len(buff))

WireLine(name, value) == name \o <<COLON, SP>> \o value \o CRLF
WireLinesOf(headers) == [i \in 1..Len(headers) |-> WireLine(headers[i].name, headers[i].value)]
HasContentLength(headers) == \E i \in 1..Len(headers) : headers[i].name = CONTENT_LENGTH
CountContentLength(headers) == Cardinality({i \in 1..Len(headers) : headers[i].name = CONTENT_LENGTH})

\* C5 as stated: respond writes exactly one content-length header line: the
\* response's own when it has one, else one with the decimal body length;
\* the other header lines are those of the response.
C5_ExactlyOneContentLength ==
    pc = "responded"
        => LET lines == WireHeaderLines(http_out)
               own == WireLinesOf(message.headers)
           IN  /\ Count(lines, IsContentLengthLine) = 1
               /\ IF HasContentLength(message.headers)
                  THEN lines = own
                  ELSE /\ Len(lines) = Len(own) + 1
                       /\ Take(lines, Len(own)) = own
                       /\ IsDecimal(WireValue(lines[Len(lines)], CONTENT_LENGTH))
                       /\ Decimal(WireValue(lines[Len(lines)], CONTENT_LENGTH)) = Len(message.body)

HelloMeWritten ==
    HTTP_1_ \o <<"1", SP, "2", "0", "0", SP, "O", "K">> \o CRLF
    \o CONTENT_LENGTH \o <<COLON, SP, "8">> \o CRLF \o CRLF \o hello_me

\* C5 amended: respond writes the header lines of the response unchanged and
\* in order; when the response has no content-length header one line
\* "content-length: N" follows them, N the decimal body length, and when it
\* has one or more nothing is added, so the written head has as many
\* content-length lines as the response had, and one when it had none.
C5_ContentLengthInjection ==
    pc = "responded"
        => LET lines == WireHeaderLines(http_out)
               own == WireLinesOf(message.headers)
           IN  /\ Count(lines, IsContentLengthLine) =
                     (IF HasContentLength(message.headers)
                      THEN CountContentLength(message.headers) ELSE 1)
               /\ IF HasContentLength(message.headers)
                  THEN lines = own
                  ELSE /\ Len(lines) = Len(own) + 1
                       /\ Take(lines, Len(own)) = own
                       /\ IsContentLengthLine(lines[Len(lines)])
                       /\ IsDecimal(WireValue(lines[Len(lines)], CONTENT_LENGTH))
                       /\ Decimal(WireValue(lines[Len(lines)], CONTENT_LENGTH)) = Len(message.body)
               /\ (message.status = 200 /\ message.headers = <<>> /\ message.body = hello_me)
                     => http_out = HelloMeWritten

\* A response with a content-length header that differs from its body length
\* was written.
C5_Witness ==
    /\ pc = "responded"
    /\ message.headers = <<H(CONTENT_LENGTH, <<"1">>)>>
    /\ message.body = hello_me
    /\ Count(WireHeaderLines(http_out), IsContentLengthLine) = 1

WireVersion == [HTTP_10 |-> <<"H", "T", "T", "P", "/", "1", ".", "0">>,
                HTTP_11 |-> <<"H", "T", "T", "P", "/", "1", ".", "1">>]

WireStatus(code) ==
    IF code = 200 THEN <<"2", "0", "0", SP, "O", "K">>
    ELSE <<"4", "0", "4", SP, "N", "o", "t", SP, "F", "o", "u", "n", "d">>

WireFirstLine(m) ==
    IF m.kind = "request"
    THEN m.method \o <<SP>> \o m.uri \o <<SP>> \o WireVersion[m.version] \o CRLF
    ELSE WireVersion[m.version] \o <<SP>> \o WireStatus(m.status) \o CRLF

\* C6: the bytes to_http returns are the first line, one "NAME: VALUE CRLF"
\* line per stored header in stored order, an empty line, and the body bytes
\* with nothing after them; the message is the one that was given.
C6_WireFormat ==
    pc = "serialised"
        => LET ls == WireLines(http_out)
               n == Len(message.headers)
           IN  /\ Len(ls) >= n + 2
               /\ ls[1] = WireFirstLine(message)
               /\ \A i \in 1..n :
                     ls[i + 1] = WireLine(message.headers[i].name, message.headers[i].value)
               /\ ls[n + 2] = CRLF
               /\ Flatten(SubSeq(ls, n + 3, Len(ls))) = message.body
               /\ Flatten(ls) = http_out
               /\ result.tag = "Ok" => message = result.msg

\* A response with two headers and a body was serialised.
C6_Witness ==
    /\ pc = "serialised"
    /\ message.kind = "response"
    /\ message.status = 404
    /\ Len(message.headers) = 2
    /\ message.body = hello_me

\* C10 amended: read_head takes the first line whatever it is, then stops at
\* the first later line that is exactly CRLF, returning the bytes up to and
\* including it and leaving the rest in the reader; at end of stream it
\* returns all the bytes.  Every call returns.
C10_StopsAtFirstLaterCrlfLine ==
    [](pc = "read_first"
        => <>(/\ pc = "head_read"
              /\ buff = HeadToFirstLaterCrlfLine(input)
              /\ reader = Drop(input, Len(buff))))

\* read_head returned on a stream that starts with an empty line and has
\* bytes after its terminator.
C10_Witness ==
    /\ pc = "head_read"
    /\ shape.lead
    /\ shape.term
    /\ reader # <<>>
    /\ buff = ShapeHead(shape)

====
